---- MODULE Spec2Model ----
\* Model of mrinversion/c_lib/include/array.h: four allocation macros,
\*
\*   #define malloc_complex128(m) (complex128 *)malloc(m * sizeof(complex128))
\*   #define malloc_complex64(m)  (complex64 *)malloc(m * sizeof(complex64))
\*   #define malloc_float(m)      (float *)malloc(m * sizeof(float))
\*   #define malloc_double(m)     (double *)malloc(m * sizeof(double))
\*
\* over the C library's malloc and free of <stdlib.h>.  The macro argument m
\* is substituted as text, the product is computed in size_t arithmetic
\* (modulo 2^SizeBits), and the pointer malloc returns is cast and handed
\* to the caller unchanged.  Callers are threads; each call is two steps
\* (evaluate the size expression, then the allocator's atomic request) so
\* that calls of different threads interleave.
EXTENDS Integers, FiniteSets, Bags, TLC

(* ------------------------------ bounds -------------------------------- *)

\* width of size_t in the model (the address space has 2^SizeBits bytes)
SizeBits == 6

\* the buffers a caller holds at one time
MaxOwned == 2

\* the size of the allocator's heap, in units of its alignment
HeapSlots == 2

\* number of caller threads
NThreads == 2

\* the byte value a caller writes into its buffer
Sentinel == 1

(* ------------------------- types and sizes ----------------------------- *)

\* sizeof(float), sizeof(double): IEEE-754 single and double precision
sizeof_float == 4

sizeof_double == 8

\* sizeof(complex64), sizeof(complex128): a pair of float, a pair of double
sizeof_complex64 == 8

sizeof_complex128 == 16

Kinds == {"float", "double", "complex64", "complex128"}

\* the element size of a kind (the size table of the data model)
size_of(K) ==
    CASE K = "float" -> sizeof_float
      [] K = "double" -> sizeof_double
      [] K = "complex64" -> sizeof_complex64
      [] K = "complex128" -> sizeof_complex128

SizeModulus == 2 ^ SizeBits

SIZE_MAX == SizeModulus - 1

NULL == 0

\* conversion of an integer to size_t: reduction modulo 2^SizeBits
SizeT(x) ==
    IF x >= 0 THEN x % SizeModulus
    ELSE (SizeModulus - ((-x) % SizeModulus)) % SizeModulus

(* ------------------------ macro arguments ------------------------------ *)

\* a count whose product with sizeof(complex128) does not fit in size_t
BigCount == (SizeModulus \div sizeof_complex128) + 1

Counts == {0, 1, BigCount}

Operands == {1}

\* The argument text of a macro call: a variable holding a count, or a
\* compound expression a + b, a - b (with a >= b, so the count is >= 0).
Exprs ==
    [op : {"var"}, a : Counts, b : {0}]
        \cup [op : {"add"}, a : Operands, b : Operands]
        \cup {e \in [op : {"sub"}, a : Operands, b : Operands] : e.a >= e.b}

\* the value of the expression m taken on its own: the element count meant
Value(m) ==
    CASE m.op = "var" -> m.a
      [] m.op = "add" -> m.a + m.b
      [] m.op = "sub" -> m.a - m.b

\* As MacroBytes, for one element more than asked.
MacroBytesOneMore(m, sz) ==
    SizeT((Value(m) + 1) * sz)

\* The size expression `m * sizeof(T)` after textual substitution of m:
\* * binds tighter than + and -, so in a + b only b is multiplied.  The
\* result is what malloc receives: a size_t.
MacroBytes(m, sz) ==
    CASE m.op = "var" -> SizeT(m.a * sz)
      [] m.op = "add" -> SizeT(m.a + m.b * sz)
      [] m.op = "sub" -> SizeT(m.a - m.b * sz)

malloc_complex128(m) == MacroBytes(m, sizeof_complex128)

\* malloc_complex64 written with the size of its component type.
malloc_complex64_float(m) == MacroBytes(m, sizeof_float)

malloc_complex64(m) == MacroBytes(m, sizeof_complex64)

malloc_float(m) == MacroBytes(m, sizeof_float)

malloc_double(m) == MacroBytes(m, sizeof_double)

\* the bytes the entry point of kind K requests for the argument m
RequestBytes(m, K) ==
    CASE K = "float" -> malloc_float(m)
      [] K = "double" -> malloc_double(m)
      [] K = "complex64" -> malloc_complex64(m)
      [] K = "complex128" -> malloc_complex128(m)

(* ------------------------ platform allocator --------------------------- *)

\* malloc returns memory aligned for any object type; the widest here is
\* complex128
MallocAlign == sizeof_complex128

\* the heap: the bytes from HeapBase up to HeapEnd, inside the address space
HeapBase == MallocAlign

HeapEnd ==
    IF MallocAlign * (HeapSlots + 1) <= SizeModulus
    THEN MallocAlign * (HeapSlots + 1) ELSE SizeModulus

HeapBytes == HeapBase .. (HeapEnd - 1)

\* the addresses malloc may return
Addrs == {a \in HeapBytes : a % MallocAlign = 0}

\* A zero-size block behaves as if its size were nonzero, except that no
\* byte of it may be accessed: it still occupies an address of its own.
Footprint(b) == b.addr .. (b.addr + (IF b.len = 0 THEN 1 ELSE b.len) - 1)

\* the bytes of a block that its owner may read and write
Range(b) == b.addr .. (b.addr + b.len - 1)

\* the addresses where a new block of n bytes fits beside the live blocks
FreeAddrs(h, n) ==
    {a \in Addrs :
        LET new == [addr |-> a, len |-> n]
        IN  /\ a + (IF n = 0 THEN 1 ELSE n) <= HeapEnd
            /\ \A b \in h : Footprint(b) \cap Footprint(new) = {}}

\* malloc(n) on the heap h: the possible results, each a returned pointer
\* and the heap after it.  The request fails (NULL, heap as it was) when no
\* address fits; for n = 0 the implementation either returns NULL
\* (zeroNull) or a pointer of its own.  The heap stands for all the memory
\* the allocator can obtain.
malloc(h, n, zeroNull) ==
    LET fits == IF n = 0 /\ zeroNull THEN {} ELSE FreeAddrs(h, n)
    IN  IF fits = {} THEN {[ptr |-> NULL, heap |-> h]}
        ELSE {[ptr |-> a, heap |-> h \cup {[addr |-> a, len |-> n]}] : a \in fits}

\* free(p): the block at p leaves the heap
free(h, p) == {b \in h : b.addr # p}

\* The macro body returning a scratch buffer it already handed out.
TypedMallocReuse(h, n, K, zeroNull) ==
    {[mret |-> o.ptr, ret |-> o.ptr, kind |-> K, heap |-> o.heap, nreq |-> 1] :
        o \in malloc(h, n, zeroNull)}
        \cup {[mret |-> b.addr, ret |-> b.addr, kind |-> K, heap |-> h, nreq |-> 1] :
                b \in h}

\* The macro body growing the previous buffer in place of a new one:
\* the blocks handed out before are released.
TypedMallocRealloc(h, n, K, zeroNull) ==
    {[mret |-> o.ptr, ret |-> o.ptr, kind |-> K, heap |-> o.heap, nreq |-> 1] :
        o \in malloc({}, n, zeroNull)}

\* The macro body asking twice and returning the second answer.
TypedMallocTwice(h, n, K, zeroNull) ==
    UNION {{[mret |-> o1.ptr, ret |-> o2.ptr, kind |-> K, heap |-> o2.heap,
             nreq |-> 2] : o2 \in malloc(o1.heap, n, zeroNull)} :
            o1 \in malloc(h, n, zeroNull)}

\* The macro body substituting a fallback buffer when malloc fails.
TypedMallocFallback(h, n, K, zeroNull) ==
    {[mret |-> o.ptr,
      ret |-> IF o.ptr = NULL THEN CHOOSE a \in Addrs : \A c \in Addrs : a <= c
              ELSE o.ptr,
      kind |-> K, heap |-> o.heap, nreq |-> 1] :
        o \in malloc(h, n, zeroNull)}

\* The macro body, a cast applied to malloc(bytes): one request to malloc,
\* its result cast to a pointer to K and returned as the value of the macro.  mret is what malloc
\* answered, ret what the caller receives, nreq the requests issued.
TypedMalloc(h, n, K, zeroNull) ==
    {[mret |-> o.ptr, ret |-> o.ptr, kind |-> K, heap |-> o.heap, nreq |-> 1] :
        o \in malloc(h, n, zeroNull)}

(* ------------------------------ state ---------------------------------- *)

VARIABLES
    heap,          \* the allocator's live blocks: records [addr, len]
    mem,           \* the bytes of the heap
    owned,         \* the typed pointers callers hold: a bag of [ptr, kind]
    th,            \* per thread: the call in progress or last completed
    malloc0_null   \* whether this platform's malloc(0) returns NULL

vars == <<heap, mem, owned, th, malloc0_null>>

Threads == 1..NThreads

\* the thread of a single-threaded caller
Main == CHOOSE t \in Threads : \A u \in Threads : t <= u

Idle ==
    [pc |-> "idle", m |-> [op |-> "var", a |-> 0, b |-> 0], kind |-> "float",
     bytes |-> 0, mret |-> NULL, ret |-> NULL, nreq |-> 0]

Init ==
    /\ heap = {}
    /\ mem = [a \in HeapBytes |-> 0]
    /\ owned = EmptyBag
    /\ th = [t \in Threads |-> Idle]
    /\ malloc0_null \in BOOLEAN

\* Thread t reaches a macro call with argument text m for kind K and
\* evaluates the size expression.
Call(t, m, K) ==
    /\ th[t].pc # "malloc"
    /\ BagCardinality(owned) < MaxOwned
    /\ th' = [th EXCEPT ![t] =
                [pc |-> "malloc", m |-> m, kind |-> K,
                 bytes |-> RequestBytes(m, K),
                 mret |-> NULL, ret |-> NULL, nreq |-> 0]]
    /\ UNCHANGED <<heap, mem, owned, malloc0_null>>

\* Thread t's request reaches the (thread-safe, hence atomic) allocator;
\* the cast pointer is the value of the macro and the caller keeps it.
Allocate(t) ==
    /\ th[t].pc = "malloc"
    /\ \E o \in TypedMalloc(heap, th[t].bytes, th[t].kind, malloc0_null) :
        /\ heap' = o.heap
        /\ th' = [th EXCEPT ![t].pc = "done", ![t].mret = o.mret,
                            ![t].ret = o.ret, ![t].nreq = o.nreq]
        /\ owned' = IF o.ret = NULL THEN owned
                    ELSE owned (+) SetToBag({[ptr |-> o.ret, kind |-> o.kind]})
    /\ UNCHANGED <<mem, malloc0_null>>

\* the live block at address p
BlockAt(p) == CHOOSE b \in heap : b.addr = p

\* A caller writes the sentinel to every byte of a buffer it holds.
Write(h) ==
    /\ h \in BagToSet(owned)
    /\ \E b \in heap : b.addr = h.ptr
    /\ mem' = [a \in HeapBytes |->
                IF a \in Range(BlockAt(h.ptr)) THEN Sentinel ELSE mem[a]]
    /\ mem' # mem
    /\ UNCHANGED <<heap, owned, th, malloc0_null>>

\* A caller releases a buffer it holds with free().  The bytes of a freed
\* block have no value a program may observe: they are kept as 0.
Release(h) ==
    /\ h \in BagToSet(owned)
    /\ \E b \in heap : b.addr = h.ptr
    /\ heap' = free(heap, h.ptr)
    /\ mem' = [a \in HeapBytes |->
                IF a \in Range(BlockAt(h.ptr)) THEN 0 ELSE mem[a]]
    /\ owned' = owned (-) SetToBag({h})
    /\ UNCHANGED <<th, malloc0_null>>

\* a single-threaded caller: any sequence of calls, writes and releases
Next ==
    \/ \E m \in Exprs, K \in Kinds : Call(Main, m, K)
    \/ Allocate(Main)
    \/ \E h \in BagToSet(owned) : Write(h)
    \/ \E h \in BagToSet(owned) : Release(h)

Spec == Init /\ [][Next]_vars

\* A thread's one call, entered while other threads' calls are in flight.
ThreadCall(t, m, K) ==
    /\ th[t].pc = "idle"
    /\ Call(t, m, K)

\* several threads, each making one call, in every interleaving
NextConc ==
    \/ \E t \in Threads, m \in Exprs, K \in Kinds : ThreadCall(t, m, K)
    \/ \E t \in Threads : Allocate(t)

SpecConc == Init /\ [][NextConc]_vars

(* ------------------------- derived notions ----------------------------- *)

\* thread t's last call has returned
Done(t) == th[t].pc = "done"

\* thread t's last call was given a plain count, not a compound expression
PlainCount(t) == th[t].m.op = "var"

\* the unbounded product count x size_of(kind) of thread t's call
TrueBytes(t) == Value(th[t].m) * size_of(th[t].kind)

\* the buffer thread t's last call returned is still held (a single-threaded
\* caller's record is of its latest call, so the live block at ret is its)
Holds(t) ==
    /\ Done(t)
    /\ th[t].ret # NULL
    /\ [ptr |-> th[t].ret, kind |-> th[t].kind] \in BagToSet(owned)
    /\ \E b \in heap : b.addr = th[t].ret

\* the bytes of the memory mm seen through the block b
Seen(mm, b) == [i \in 0..(b.len - 1) |-> mm[b.addr + i]]

\* thread t's allocator step happens in this transition
Completes(t) == th[t].pc = "malloc" /\ th'[t].pc = "done"

\* the allocator has no way to satisfy a request of n bytes
CannotSatisfy(h, n, zeroNull) == \A o \in malloc(h, n, zeroNull) : o.ptr = NULL

(* ------------------------------ claims --------------------------------- *)

\* C1: a successful allocate(count, K) yields a buffer whose byte length is
\* count x size_of(K), for every kind and every count >= 0.
C1_ByteLength ==
    \A t \in Threads :
        (Holds(t) /\ PlainCount(t)) =>
            BlockAt(th[t].ret).len = th[t].m.a * size_of(th[t].kind)

\* C2: when the true product count x size_of(K) exceeds what size_t can
\* represent, allocate returns the null handle; no call returns a non-null
\* handle to a buffer shorter than count x size_of(K).
C2_OverflowFails ==
    \A t \in Threads :
        (Done(t) /\ PlainCount(t)) =>
            /\ TrueBytes(t) > SIZE_MAX => th[t].ret = NULL
            /\ Holds(t) => BlockAt(th[t].ret).len >= TrueBytes(t)

\* C3 (as claimed): allocate(0, K) never returns the failure indicator,
\* whatever the platform allocator does for a zero-byte request.
C3_ZeroNeverFails ==
    \A t \in Threads :
        (Done(t) /\ PlainCount(t) /\ th[t].m.a = 0) => th[t].ret # NULL

\* C3 (amended): allocate(0, K) issues one zero-byte request and returns
\* exactly what malloc(0) returns: the null handle on a platform whose
\* malloc(0) returns NULL, otherwise a handle to a zero-byte buffer (or the
\* null handle when the allocator has no address left).
C3_ZeroFollowsMalloc ==
    \A t \in Threads :
        (Done(t) /\ PlainCount(t) /\ th[t].m.a = 0) =>
            /\ th[t].bytes = 0
            /\ th[t].nreq = 1
            /\ th[t].ret = th[t].mret
            /\ malloc0_null => th[t].ret = NULL
            /\ Holds(t) => BlockAt(th[t].ret).len = 0

\* a zero-count call that returned a live zero-byte buffer
C3_Witness ==
    \E t \in Threads :
        /\ Holds(t) /\ PlainCount(t) /\ th[t].m.a = 0
        /\ BlockAt(th[t].ret).len = 0

\* C4: allocate returns the null handle exactly when the platform allocator
\* cannot satisfy the request; it issues that one request, never a second,
\* and the call always returns (it does not abort).
C4_NullIffMallocFails ==
    [][\A t \in Threads :
        Completes(t) =>
            /\ th'[t].ret = NULL
                <=> CannotSatisfy(heap, th[t].bytes, malloc0_null)
            /\ th'[t].ret = th'[t].mret
            /\ th'[t].nreq = 1]_vars

\* a call for a nonzero size that returned the null handle
C4_Witness ==
    \E t \in Threads :
        Done(t) /\ th[t].bytes > 0 /\ th[t].ret = NULL /\ th[t].nreq = 1

\* the buffers held are at distinct addresses and do not overlap
NoOverlap ==
    /\ \A h \in BagToSet(owned) :
        /\ CopiesIn(h, owned) = 1
        /\ \E b \in heap : b.addr = h.ptr
    /\ \A h1, h2 \in BagToSet(owned) :
        h1 # h2 =>
            /\ h1.ptr # h2.ptr
            /\ Range(BlockAt(h1.ptr)) \cap Range(BlockAt(h2.ptr)) = {}

\* C5: after any sequence of calls, the buffers returned and not yet
\* released are at pairwise distinct addresses and do not overlap, and the
\* contents seen through a handle change only by a write through that
\* handle, never through another.
C5_NoAliasing ==
    [][/\ NoOverlap'
       /\ \A g \in BagToSet(owned) :
            (g \in BagToSet(owned') /\ BlockAt(g.ptr) \in heap') =>
                \/ Seen(mem', BlockAt(g.ptr)) = Seen(mem, BlockAt(g.ptr))
                \/ Write(g)]_vars

\* two held buffers of the same kind and length, the sentinel written to
\* one and the other untouched
C5_Witness ==
    \E h1, h2 \in BagToSet(owned) :
        /\ h1 # h2 /\ h1.kind = h2.kind
        /\ \E b1, b2 \in heap :
            /\ b1.addr = h1.ptr /\ b2.addr = h2.ptr
            /\ b1.len = b2.len /\ b1.len > 0
            /\ \A a \in Range(b1) : mem[a] = Sentinel
            /\ \A a \in Range(b2) : mem[a] # Sentinel

\* C6: a buffer returned by allocate stays allocated, with its kind and
\* byte length, through every later step, until the caller releases it.
C6_LivesUntilReleased ==
    [][\A h \in BagToSet(owned) :
        \/ Release(h)
        \/ /\ h \in BagToSet(owned')
           /\ \A b \in heap : b.addr = h.ptr => b \in heap']_vars

\* a buffer still held after a later call returned another buffer
C6_Witness ==
    /\ Holds(Main)
    /\ \E h \in BagToSet(owned) :
        /\ h.ptr # th[Main].ret
        /\ \E b \in heap : b.addr = h.ptr /\ b.len > 0

\* C7: each allocate call, successful or failed, issues exactly one request
\* to the allocator and changes nothing else: the contents of memory, the
\* blocks allocated before, the handles held and the other threads' calls
\* are as they were.
C7_OneRequestOnly ==
    [][\A t \in Threads :
        Completes(t) =>
            /\ th'[t].nreq = 1
            /\ mem' = mem
            /\ malloc0_null' = malloc0_null
            /\ heap \subseteq heap'
            /\ Cardinality(heap' \ heap) = (IF th'[t].ret = NULL THEN 0 ELSE 1)
            /\ \A h \in BagToSet(owned) : CopiesIn(h, owned') >= CopiesIn(h, owned)
            /\ \A u \in Threads \ {t} : th'[u] = th[u]]_vars

\* a call returned a new buffer while an older one holds the sentinel
C7_Witness ==
    /\ Holds(Main)
    /\ th[Main].nreq = 1
    /\ \E b \in heap :
        /\ b.addr # th[Main].ret /\ b.len > 0
        /\ \A a \in Range(b) : mem[a] = Sentinel

\* C8: with several threads calling concurrently, in every interleaving
\* each successful call returns its own buffer of its own count x size_of(K)
\* bytes, and no two calls receive the same or overlapping buffers.
C8_ConcurrentIndependent ==
    \A t, u \in Threads :
        (t # u /\ Holds(t) /\ Holds(u) /\ PlainCount(t) /\ PlainCount(u)) =>
            /\ BlockAt(th[t].ret).len = TrueBytes(t)
            /\ BlockAt(th[u].ret).len = TrueBytes(u)
            /\ th[t].ret # th[u].ret
            /\ Footprint(BlockAt(th[t].ret)) \cap Footprint(BlockAt(th[u].ret)) = {}

\* C8, the part that does not rest on the size product: the calls of two
\* threads never receive the same or overlapping buffers, and each buffer
\* has the length its own call requested.
ConcurrentBuffersDisjoint ==
    \A t, u \in Threads :
        (t # u /\ Holds(t) /\ Holds(u)) =>
            /\ BlockAt(th[t].ret).len = th[t].bytes
            /\ th[t].ret # th[u].ret
            /\ Footprint(BlockAt(th[t].ret)) \cap Footprint(BlockAt(th[u].ret)) = {}

\* C9: size_of(complex64) = 2 size_of(float), size_of(complex128) =
\* 2 size_of(double); malloc_complex64(count) requests the bytes of
\* malloc_float(2 count), malloc_complex128(count) those of
\* malloc_double(2 count); the entry points differ by the size alone.
C9_ComplexIsTwoReals ==
    /\ sizeof_complex64 = 2 * sizeof_float
    /\ sizeof_complex128 = 2 * sizeof_double
    /\ \A t \in Threads :
        th[t].pc # "idle" =>
            LET twice == [op |-> "var", a |-> 2 * th[t].m.a, b |-> 0]
            IN  /\ th[t].bytes = MacroBytes(th[t].m, size_of(th[t].kind))
                /\ (PlainCount(t) /\ th[t].kind = "complex64") =>
                        th[t].bytes = malloc_float(twice)
                /\ (PlainCount(t) /\ th[t].kind = "complex128") =>
                        th[t].bytes = malloc_double(twice)

\* a complex64 call for a nonzero count holds a buffer of 2 count floats
C9_Witness ==
    \E t \in Threads :
        /\ Holds(t) /\ PlainCount(t) /\ th[t].m.a > 0
        /\ th[t].kind = "complex64"
        /\ BlockAt(th[t].ret).len = 2 * th[t].m.a * sizeof_float

\* C10: for every argument expression m, compound ones included, the bytes
\* requested are value(m) x sizeof(type), as if m had been a variable.
C10_ArgumentAsValue ==
    \A t \in Threads :
        th[t].pc # "idle" =>
            th[t].bytes = SizeT(Value(th[t].m) * size_of(th[t].kind))

====
